---- MODULE Spec2Model ----
(***************************************************************************)
(* Model of q1.c: the tangent-extrapolation table printer.                 *)
(*                                                                         *)
(* A C double is an IEEE 754 binary64 value: sign, significand and         *)
(* exponent, with infinities, NaNs, signed zeros and subnormals, and every *)
(* operation rounds to nearest, ties to even, as the x86-64 build does.    *)
(* A C string is a tuple of one-character strings; atof and printf's       *)
(* %w.3f conversion are modelled character by character.                   *)
(***************************************************************************)
EXTENDS Integers, Sequences, FiniteSets

\* ------------------------------------------------------------------ bounds
\* Largest argc of a modelled invocation (argc counts the program name).
MaxArgc == 6
\* The helper functions called on their own get the tenths up to FnMax/10
\* as coefficients and up to 2*FnMax/10 as points and offsets.
FnMax == 1

\* ------------------------------------------------------- whole numbers
\* TLC's integers have 32 bits, a double's significand 53: a natural number
\* of any size is a sequence of limbs below Base, least significant first,
\* with no zero limb at the top (so 0 is << >>).
Base == 2 ^ 15

BigNat == Seq(0..(Base - 1))

Min(m, n) == IF m < n THEN m ELSE n

Max(m, n) == IF m < n THEN n ELSE m

\* The halves of a sequence: sequential work on a long number is split in
\* two, so that the depth of evaluation grows with the logarithm of its
\* length.
LowHalf(q) == SubSeq(q, 1, Len(q) \div 2)

HighHalf(q) == SubSeq(q, Len(q) \div 2 + 1, Len(q))

\* a without its zero limbs at the top
BTrim[a \in BigNat] ==
    IF \A j \in 1..Len(a) : a[j] = 0 THEN << >>
    ELSE SubSeq(a, 1, CHOOSE j \in 1..Len(a) :
                          a[j] # 0 /\ \A l \in (j + 1)..Len(a) : a[l] = 0)

BFromInt[n \in Nat] ==
    IF n = 0 THEN << >> ELSE << n % Base >> \o BFromInt[n \div Base]

\* One limb of a long addition, subtraction, multiplication by k or
\* division by k.  st is << the result's limbs so far, the carry >>; the
\* division runs from the top limb down and its carry is the remainder.
LimbOp(op, p, q, k, st) ==
    CASE op = "add" ->
            << Append(st[1], (p + q + st[2]) % Base), (p + q + st[2]) \div Base >>
      [] op = "sub" ->
            << Append(st[1], (p - q - st[2] + Base) % Base),
               IF p - q - st[2] < 0 THEN 1 ELSE 0 >>
      [] op = "mul" ->
            << Append(st[1], (p * k + st[2]) % Base), (p * k + st[2]) \div Base >>
      [] op = "div" ->
            << << (st[2] * Base + p) \div k >> \o st[1], (st[2] * Base + p) % k >>

\* The operation op over all limbs of a (and of b, which has a's length)
LimbOps == {"add", "sub", "mul", "div"}

Scan[op \in LimbOps, a \in BigNat, b \in BigNat, k \in Nat, st \in BigNat \X Nat] ==
    IF a = << >> THEN st
    ELSE IF Len(a) = 1 THEN LimbOp(op, a[1], b[1], k, st)
    ELSE IF op = "div" THEN
        Scan[op, LowHalf(a), LowHalf(b), k,
             Scan[op, HighHalf(a), HighHalf(b), k, st]]
    ELSE
        Scan[op, HighHalf(a), HighHalf(b), k,
             Scan[op, LowHalf(a), LowHalf(b), k, st]]

\* a with zero limbs added at the top up to length n
BPad(a, n) == a \o [j \in 1..Max(n - Len(a), 0) |-> 0]

\* The limbs with the last carry as the top limb
WithCarry[st \in BigNat \X Nat] ==
    BTrim[IF st[2] = 0 THEN st[1] ELSE Append(st[1], st[2])]

\* a + b + cy
BAddC[a \in BigNat, b \in BigNat, cy \in 0..1] ==
    WithCarry[Scan["add", BPad(a, Len(b)), BPad(b, Len(a)), 0, << << >>, cy >>]]

\* a - b, for a >= b
BSub[a \in BigNat, b \in BigNat] ==
    BTrim[Scan["sub", a, BPad(b, Len(a)), 0, << << >>, 0 >>][1]]

\* -1, 0 or 1 as a is below, equal to or above b
BCmp[a \in BigNat, b \in BigNat] ==
    IF Len(a) # Len(b) THEN (IF Len(a) < Len(b) THEN -1 ELSE 1)
    ELSE IF a = b THEN 0
    ELSE IF a[CHOOSE j \in 1..Len(a) :
                a[j] # b[j] /\ \A l \in (j + 1)..Len(a) : a[l] = b[l]]
            < b[CHOOSE j \in 1..Len(a) :
                a[j] # b[j] /\ \A l \in (j + 1)..Len(a) : a[l] = b[l]]
         THEN -1
    ELSE 1

\* a * k + cy, for k <= Base and cy < Base
BMulSmall[a \in BigNat, k \in Nat, cy \in Nat] ==
    WithCarry[Scan["mul", a, a, k, << << >>, cy >>]]

\* a * Base^n
BShiftLimbs[a \in BigNat, n \in Nat] ==
    IF a = << >> THEN a ELSE [j \in 1..n |-> 0] \o a

BMul[a \in BigNat, b \in BigNat] ==
    IF b = << >> THEN << >>
    ELSE IF Len(b) = 1 THEN BMulSmall[a, b[1], 0]
    ELSE BAddC[BMul[a, LowHalf(b)],
               BShiftLimbs[BMul[a, HighHalf(b)], Len(b) \div 2], 0]

BTrimQuot[qr \in BigNat \X Nat] == << BTrim[qr[1]], qr[2] >>

\* << a \div k, a % k >>, for 0 < k <= Base
BDivSmall[a \in BigNat, k \in Nat] ==
    BTrimQuot[Scan["div", a, a, k, << << >>, 0 >>]]

IntBitLen[n \in Nat] == IF n = 0 THEN 0 ELSE 1 + IntBitLen[n \div 2]

\* Number of bits of a (0 for 0)
BBitLen[a \in BigNat] ==
    IF a = << >> THEN 0 ELSE 15 * (Len(a) - 1) + IntBitLen[a[Len(a)]]

\* a * 2^n
BShl[a \in BigNat, n \in Nat] ==
    IF a = << >> THEN a
    ELSE BShiftLimbs[BMulSmall[a, 2 ^ (n % 15), 0], n \div 15]

\* a \div 2^n
BShr[a \in BigNat, n \in Nat] ==
    IF n \div 15 >= Len(a) THEN << >>
    ELSE BDivSmall[SubSeq(a, n \div 15 + 1, Len(a)), 2 ^ (n % 15)][1]

\* Bit n of a (bit 0 is the lowest)
BBit[a \in BigNat, n \in Nat] ==
    IF n \div 15 + 1 > Len(a) THEN 0
    ELSE (a[n \div 15 + 1] \div (2 ^ (n % 15))) % 2

\* The n lowest bits of a are all zero.
BLowZero[a \in BigNat, n \in Nat] ==
    /\ \A j \in 1..Min(n \div 15, Len(a)) : a[j] = 0
    /\ (n \div 15 + 1 > Len(a) \/ a[n \div 15 + 1] % (2 ^ (n % 15)) = 0)

\* --------------------------------------------------------------- doubles
\* An IEEE 754 binary64 value.  A finite value is (-1)^sign * man * 2^exp
\* with man below 2^53 and -1074 <= exp <= 971; man has exactly 53 bits
\* unless exp = -1074 (subnormal) or the value is zero (man = << >>,
\* exp = 0).  Infinities and NaNs carry their sign bit.
Double == [cls : {"fin", "inf", "nan"}, sign : 0..1, exp : Int, man : BigNat]

DZero(s) == [cls |-> "fin", sign |-> s, exp |-> 0, man |-> << >>]

DInf(s) == [cls |-> "inf", sign |-> s, exp |-> 0, man |-> << >>]

DNaN(s) == [cls |-> "nan", sign |-> s, exp |-> 0, man |-> << >>]

\* The NaN an invalid operation produces: on x86-64 its sign bit is set.
DefaultNaN == DNaN(1)

\* The double (-1)^s * m * 2^e for m of at most 53 bits, or m = 2^53, and
\* e >= -1074: too large an exponent overflows to infinity.
Pack[s \in 0..1, m \in BigNat, e \in Int] ==
    IF m = << >> THEN DZero(s)
    ELSE IF BBitLen[m] > 53 THEN Pack[s, BShr[m, 1], e + 1]
    ELSE IF e > 971 THEN DInf(s)
    ELSE [cls |-> "fin", sign |-> s, exp |-> e, man |-> m]

\* 1 when m / 2^sh (plus a nonzero rest below m's last bit when st) rounds
\* up to the next integer under round-to-nearest, ties to even.
RoundUp(m, sh, st) ==
    IF BBit[m, sh - 1] = 1 /\ (st \/ ~BLowZero[m, sh - 1] \/ BBit[m, sh] = 1)
    THEN 1 ELSE 0

\* m * 2^e rounded to a multiple of 2^(e + sh)
RoundAt[s \in 0..1, m \in BigNat, e \in Int, st \in BOOLEAN, sh \in Int] ==
    IF sh <= 0 THEN Pack[s, BShl[m, -sh], e + sh]
    ELSE Pack[s, BAddC[BShr[m, sh], << >>, RoundUp(m, sh, st)], e + sh]

\* The double nearest to (-1)^s * (m + rest) * 2^e, where rest is 0, or
\* when st a value strictly between 0 and 1 (m then has at least 55 bits).
Round[s \in 0..1, m \in BigNat, e \in Int, st \in BOOLEAN] ==
    RoundAt[s, m, e, st, Max(e + BBitLen[m] - 53, -1074) - e]

\* The double of a whole number n
DFromInt(n) ==
    Round[IF n < 0 THEN 1 ELSE 0, BFromInt[IF n < 0 THEN -n ELSE n], 0, FALSE]

AddDiff[sx \in 0..1, mx \in BigNat, sy \in 0..1, my \in BigNat, e \in Int, cmp \in -1..1] ==
    IF cmp = 0 THEN DZero(0)
    ELSE IF cmp > 0 THEN Round[sx, BSub[mx, my], e, FALSE]
    ELSE Round[sy, BSub[my, mx], e, FALSE]

AddMag[sx \in 0..1, mx \in BigNat, sy \in 0..1, my \in BigNat, e \in Int] ==
    IF sx = sy THEN Round[sx, BAddC[mx, my, 0], e, FALSE]
    ELSE AddDiff[sx, mx, sy, my, e, BCmp[mx, my]]

\* x + y for finite non-zero x, y with x.exp >= y.exp: beyond 64 binary
\* places of distance y is below a 2^-11 of x's last place and x stands.
AddFin[x \in Double, y \in Double] ==
    IF x.exp - y.exp > 64 THEN x
    ELSE AddMag[x.sign, BShl[x.man, x.exp - y.exp], y.sign, y.man, y.exp]

\* The C expression x + y
DAdd[x \in Double, y \in Double] ==
    IF x.cls = "nan" THEN x
    ELSE IF y.cls = "nan" THEN y
    ELSE IF x.cls = "inf" THEN
        (IF y.cls = "inf" /\ y.sign # x.sign THEN DefaultNaN ELSE x)
    ELSE IF y.cls = "inf" THEN y
    ELSE IF x.man = << >> THEN
        (IF y.man = << >> THEN DZero(IF x.sign = 1 /\ y.sign = 1 THEN 1 ELSE 0)
         ELSE y)
    ELSE IF y.man = << >> THEN x
    ELSE IF x.exp < y.exp THEN AddFin[y, x]
    ELSE AddFin[x, y]

\* x with its sign bit flipped, a NaN left as it is
FlipSign[x \in Double] ==
    IF x.cls = "nan" THEN x ELSE [x EXCEPT !.sign = 1 - x.sign]

\* The C expression x - y
DSub[x \in Double, y \in Double] ==
    IF x.cls = "nan" THEN x ELSE DAdd[x, FlipSign[y]]

\* The C expression x * y
DMul[x \in Double, y \in Double] ==
    IF x.cls = "nan" THEN x
    ELSE IF y.cls = "nan" THEN y
    ELSE IF x.cls = "inf" \/ y.cls = "inf" THEN
        (IF (x.cls = "fin" /\ x.man = << >>) \/ (y.cls = "fin" /\ y.man = << >>)
         THEN DefaultNaN
         ELSE DInf((x.sign + y.sign) % 2))
    ELSE IF x.man = << >> \/ y.man = << >> THEN DZero((x.sign + y.sign) % 2)
    ELSE Round[(x.sign + y.sign) % 2, BMul[x.man, y.man], x.exp + y.exp, FALSE]

\* The C expression x == y
DEq(x, y) ==
    /\ x.cls # "nan" /\ y.cls # "nan"
    /\ \/ x = y
       \/ (x.cls = "fin" /\ y.cls = "fin" /\ x.man = << >> /\ y.man = << >>)

\* ------------------------------------------------- text to double (atof)
\* A text is a sequence of one-character strings; "\\v" stands for the
\* vertical tab, which has no escape of its own here.
Text == Seq(STRING)

DigitChars == << "0", "1", "2", "3", "4", "5", "6", "7", "8", "9" >>

HexChars == DigitChars \o << "a", "b", "c", "d", "e", "f" >>

UpperChars ==
    << "A", "B", "C", "D", "E", "F", "G", "H", "I", "J", "K", "L", "M",
       "N", "O", "P", "Q", "R", "S", "T", "U", "V", "W", "X", "Y", "Z" >>

LowerChars ==
    << "a", "b", "c", "d", "e", "f", "g", "h", "i", "j", "k", "l", "m",
       "n", "o", "p", "q", "r", "s", "t", "u", "v", "w", "x", "y", "z" >>

\* tolower()
Lower(ch) ==
    IF \E j \in 1..26 : UpperChars[j] = ch
    THEN LowerChars[CHOOSE j \in 1..26 : UpperChars[j] = ch]
    ELSE ch

\* isspace() in the C locale
IsSpace(ch) == ch \in {" ", "\t", "\n", "\\v", "\f", "\r"}

IsDigit(ch) == \E j \in 1..10 : DigitChars[j] = ch

IsHex(ch) == \E j \in 1..16 : HexChars[j] = Lower(ch)

DigitVal(ch) == (CHOOSE j \in 1..16 : HexChars[j] = Lower(ch)) - 1

Drop(s, n) == SubSeq(s, n + 1, Len(s))

\* Length of the longest prefix of a text whose characters are all in a
\* class, f[j] telling whether character j is in it: the prefix ends in
\* the first half of f, or takes it whole and goes on into the second
Run[f \in Seq(BOOLEAN)] ==
    IF f = << >> THEN 0
    ELSE IF Len(f) = 1 THEN (IF f[1] THEN 1 ELSE 0)
    ELSE IF Run[LowHalf(f)] < Len(f) \div 2 THEN Run[LowHalf(f)]
    ELSE Len(f) \div 2 + Run[HighHalf(f)]

SkipSpace[s \in Text] == Drop(s, Run[[j \in 1..Len(s) |-> IsSpace(s[j])]])

\* Length of the run of decimal digits at the head of s
DigitRun[s \in Text] == Run[[j \in 1..Len(s) |-> IsDigit(s[j])]]

\* Length of the run of hexadecimal digits at the head of s
HexRun[s \in Text] == Run[[j \in 1..Len(s) |-> IsHex(s[j])]]

\* acc followed by the digits s, read in base radix
DigitsValue[s \in Text, radix \in Nat, acc \in BigNat] ==
    IF s = << >> THEN acc
    ELSE IF Len(s) = 1 THEN BMulSmall[acc, radix, DigitVal(s[1])]
    ELSE DigitsValue[HighHalf(s), radix, DigitsValue[LowHalf(s), radix, acc]]

\* An exponent's digits as a number, held at cap so that it stays a machine
\* integer however many digits there are.  The callers pass a cap that the
\* digits of the number cannot offset (see DecFloat and HexFloat), so the
\* double is the one the full exponent gives.
ExpDigits[s \in Text, acc \in Nat, cap \in Nat] ==
    IF s = << >> THEN acc
    ELSE IF Len(s) = 1 THEN Min(10 * acc + DigitVal(s[1]), cap)
    ELSE ExpDigits[HighHalf(s), ExpDigits[LowHalf(s), acc, cap], cap]

\* The value of the exponent part at the head of s, which mark ("e" or
\* "p") introduces; 0 when s does not begin with a complete exponent part.
ExpPart[s \in Text, mark \in STRING, cap \in Nat] ==
    IF s = << >> \/ Lower(s[1]) # mark THEN 0
    ELSE LET sg == IF Len(s) >= 2 /\ s[2] \in {"+", "-"} THEN 1 ELSE 0
             n  == DigitRun[Drop(s, 1 + sg)]
         IN  IF n = 0 THEN 0
             ELSE (IF sg = 1 /\ s[2] = "-" THEN -1 ELSE 1)
                      * ExpDigits[SubSeq(s, 2 + sg, 1 + sg + n), 0, cap]

\* d * 10^k
MulPow10[d \in BigNat, k \in Nat] ==
    IF k <= 4 THEN BMulSmall[d, 10 ^ k, 0]
    ELSE MulPow10[MulPow10[d, k \div 2], k - k \div 2]

StickyQuot[qr \in BigNat \X Nat, st \in BOOLEAN] == << qr[1], st \/ qr[2] # 0 >>

\* << d \div 10^k, whether a remainder was dropped >> from ds = << d,
\* whether a remainder was dropped before >>
DivPow10[ds \in BigNat \X BOOLEAN, k \in Nat] ==
    IF k <= 4 THEN StickyQuot[BDivSmall[ds[1], 10 ^ k], ds[2]]
    ELSE DivPow10[DivPow10[ds, k \div 2], k - k \div 2]

RoundPair[s \in 0..1, qs \in BigNat \X BOOLEAN, e \in Int] ==
    Round[s, qs[1], e, qs[2]]

\* The double nearest to (-1)^s * d * 10^k.  Below 10^-324 the value is
\* under half the least subnormal and rounds to zero; a negative k divides
\* d, shifted far enough to leave a quotient of 64 bits or more.
DecToDouble[s \in 0..1, d \in BigNat, k \in Int] ==
    IF d = << >> THEN DZero(s)
    ELSE IF k >= 0 THEN
        (IF k > 310 THEN DInf(s) ELSE Round[s, MulPow10[d, k], 0, FALSE])
    ELSE IF (BBitLen[d] * 31) \div 100 + 1 + k <= -324 THEN DZero(s)
    ELSE RoundPair[s, DivPow10[<< BShl[d, 4 * (-k) + 64], FALSE >>, -k],
                   -(4 * (-k) + 64)]

StartsWith(s, p) ==
    Len(s) >= Len(p) /\ \A j \in 1..Len(p) : Lower(s[j]) = p[j]

\* s begins a hexadecimal floating constant: 0x and at least one digit.
IsHexFloat(s) ==
    /\ Len(s) >= 3 /\ s[1] = "0" /\ Lower(s[2]) = "x"
    /\ \/ IsHex(s[3])
       \/ (s[3] = "." /\ Len(s) >= 4 /\ IsHex(s[4]))

\* The number of "0" characters that end s
ZeroTail[s \in Text] == Run[[j \in 1..Len(s) |-> s[Len(s) + 1 - j] = "0"]]

\* The hexadecimal digits s (after 0x), an optional point and exponent:
\* m * 2^(p - 4 * nf) for the digits m, nf of them after the point, rounded
\* once; zeros that end the digits are counted into the power of two
\* instead, which leaves the value as it is.  m is below 2^(4 * Len(s)),
\* so an exponent of magnitude 4 * Len(s) + 1200 or more gives an infinity
\* or a zero whatever its further digits are, and it is read up to that
\* magnitude.
HexFloat[sg \in 0..1, s \in Text] ==
    LET ni     == HexRun[s]
        hasDot == Len(s) > ni /\ s[ni + 1] = "."
        nf     == IF hasDot THEN HexRun[Drop(s, ni + 1)] ELSE 0
        used   == ni + (IF hasDot THEN 1 ELSE 0) + nf
        hs     == SubSeq(s, 1, ni) \o SubSeq(s, ni + 2, ni + 1 + nf)
        nz     == ZeroTail[hs]
    IN  Round[sg,
              DigitsValue[SubSeq(hs, 1, Len(hs) - nz), 16, << >>],
              ExpPart[Drop(s, used), "p", 4 * Len(s) + 1200]
                  - 4 * nf + 4 * nz, FALSE]

\* The decimal digits s, an optional point and exponent; with no digit at
\* all nothing is converted and the result is zero.  The value is
\* d * 10^(e - nf) for the digits d, nf of them after the point; zeros that
\* end the digits are counted into the power of ten instead, which leaves
\* the value as it is.  d is below 10^Len(s), so an exponent of magnitude
\* Len(s) + 400 or more gives an infinity or a zero whatever its further
\* digits are, and it is read up to that magnitude.
DecFloat[sg \in 0..1, s \in Text] ==
    LET ni     == DigitRun[s]
        hasDot == Len(s) > ni /\ s[ni + 1] = "."
        nf     == IF hasDot THEN DigitRun[Drop(s, ni + 1)] ELSE 0
        used   == ni + (IF hasDot THEN 1 ELSE 0) + nf
        ds     == SubSeq(s, 1, ni) \o SubSeq(s, ni + 2, ni + 1 + nf)
        nz     == ZeroTail[ds]
    IN  IF ni + nf = 0 THEN DZero(0)
        ELSE DecToDouble[sg,
                 DigitsValue[SubSeq(ds, 1, Len(ds) - nz), 10, << >>],
                 ExpPart[Drop(s, used), "e", Len(s) + 400] - nf + nz]

\* atof(s) is strtod(s, NULL): white space, a sign, then an infinity, a
\* NaN, a hexadecimal or a decimal constant; what follows is ignored.
atof(s) ==
    LET t       == SkipSpace[s]
        hasSign == t # << >> /\ t[1] \in {"+", "-"}
        sg      == IF hasSign /\ t[1] = "-" THEN 1 ELSE 0
        r       == IF hasSign THEN Tail(t) ELSE t
    IN  IF StartsWith(r, << "i", "n", "f" >>) THEN DInf(sg)
        ELSE IF StartsWith(r, << "n", "a", "n" >>) THEN DNaN(sg)
        ELSE IF IsHexFloat(r) THEN HexFloat[sg, Drop(r, 2)]
        ELSE DecFloat[sg, r]

\* ------------------------------------------------ double to text (%w.3f)
\* The four decimal digits of the remainder qr[2] put before the text t
EmitDigits[qr \in BigNat \X Nat, t \in Text] ==
    << qr[1],
       << DigitChars[(qr[2] \div 1000) + 1],
          DigitChars[((qr[2] \div 100) % 10) + 1],
          DigitChars[((qr[2] \div 10) % 10) + 1],
          DigitChars[(qr[2] % 10) + 1] >>
           \o t >>

\* The 4 * n lowest decimal digits of nt[1] put before the text nt[2], and
\* what is left of the number
LowDigits[nt \in BigNat \X Text, n \in Nat] ==
    IF n = 0 THEN nt
    ELSE IF n = 1 THEN EmitDigits[BDivSmall[nt[1], 10000], nt[2]]
    ELSE LowDigits[LowDigits[nt, n \div 2], n - n \div 2]

\* The decimal digits of n, with zeros before them: a number of L bits
\* has at most 0.31 * L + 1 digits.
DecDigits[n \in BigNat] ==
    LowDigits[<< n, << >> >>, ((BBitLen[n] * 31) \div 100 + 4) \div 4][2]

\* m / 2^sh rounded to the nearest integer, ties to even
ShrRound[m \in BigNat, sh \in Nat] ==
    IF sh = 0 THEN m ELSE BAddC[BShr[m, sh], << >>, RoundUp(m, sh, FALSE)]

\* |v| * 1000 rounded to the nearest integer, ties to even, for finite v
Scaled1000[v \in Double] ==
    IF v.exp >= 0 THEN BShl[BMulSmall[v.man, 1000, 0], v.exp]
    ELSE ShrRound[BMulSmall[v.man, 1000, 0], -v.exp]

PadLeft[t \in Text, w \in Nat, ch \in STRING] ==
    [j \in 1..Max(w - Len(t), 0) |-> ch] \o t

\* ds without its zeros at the head, down to n digits
StripZeros[ds \in Text, n \in Nat] ==
    Drop(ds, Min(Run[[j \in 1..Len(ds) |-> ds[j] = "0"]], Len(ds) - n))

\* The digits ds of a number n as the text of n / 1000
Fixed3[ds \in Text] ==
    SubSeq(ds, 1, Len(ds) - 3) \o << "." >> \o SubSeq(ds, Len(ds) - 2, Len(ds))

\* printf's conversion %w.3f of v
Fmt3f[v \in Double, w \in Nat] ==
    PadLeft[(IF v.sign = 1 THEN << "-" >> ELSE << >>)
                \o (IF v.cls = "nan" THEN << "n", "a", "n" >>
                    ELSE IF v.cls = "inf" THEN << "i", "n", "f" >>
                    ELSE Fixed3[StripZeros[
                             PadLeft[DecDigits[Scaled1000[v]], 4, "0"], 4]]),
            w, " "]

\* ------------------------------------------------------------- constants
\* const int stepLimit = 1000;
stepLimit == 1000

\* const double stepSize = 0.001;  (the double nearest to 1/1000)
stepSize == DecToDouble[0, BFromInt[1], -3]

\* ------------------------------------------------------ helper functions
\* double func(double a, double b, double c, double x)
func(a, b, c, x) ==
    LET fval0 == a
        fval1 == DAdd[DMul[fval0, x], b]
        fval2 == DAdd[DMul[fval1, x], c]
    IN  fval2

\* double funcPrime(double a, double b, double x)
funcPrime(a, b, x) ==
    LET slopeval0 == DMul[DFromInt(2), a]
        slopeval1 == DAdd[DMul[slopeval0, x], b]
    IN  slopeval1

\* extrapolate with the slope taken at x instead of x + h.
extrapolateSlopeAtBase(a, b, c, x, h) ==
    LET slope    == funcPrime(a, b, x)
        vchange  == DMul[h, slope]
        estimate == DAdd[func(a, b, c, x), vchange]
    IN  estimate

\* extrapolate with the slope added unscaled (vchange = slope).
extrapolateUnscaled(a, b, c, x, h) ==
    LET slope    == funcPrime(a, b, DAdd[x, h])
        vchange  == slope
        estimate == DAdd[func(a, b, c, x), vchange]
    IN  estimate

\* double extrapolate(double a, double b, double c, double x, double h)
extrapolate(a, b, c, x, h) ==
    LET slope    == funcPrime(a, b, DAdd[x, h])
        vchange  == DMul[h, slope]
        estimate == DAdd[func(a, b, c, x), vchange]
    IN  estimate

\* ----------------------------------------------------------------- state
VARIABLES
    pc,         \* position of main(): "ValidateArgs", "ValidateCoefficient",
                \* "Iterate", "Done"; "Harness" when a helper is called alone
    argc,       \* main's argc
    argv,       \* argv[1] .. argv[argc - 1] (argv[0], the program name, is not read)
    a, b, c, x, \* main's parsed parameters
    h,          \* main's current step
    i,          \* main's loop counter
    firstCall,  \* writeExtrapolation's static flag
    stdout,     \* the lines written to standard output, in order
    lastRow,    \* what the last call of writeExtrapolation handed to printf
    exitCode,   \* main's return value, -1 while main has not returned
    call        \* a direct call of one helper function: its arguments and result

vars ==
    <<pc, argc, argv, a, b, c, x, h, i, firstCall, stdout, lastRow, exitCode, call>>

\* A local of main() whose declaration has not been reached yet.
Unset == [cls |-> "unset", sign |-> 0, exp |-> 0, man |-> << >>]

NoCall == [op |-> "none"]

NoRow == [kind |-> "none"]

\* ---------------------------------------------------------------- output
\* A line of fixed text
TextLine(t) == [kind |-> "text", text |-> t]

\* The characters of t as one string
Str[t \in Text] ==
    IF t = << >> THEN ""
    ELSE IF Len(t) = 1 THEN t[1]
    ELSE Str[LowHalf(t)] \o Str[HighHalf(t)]

UsageLines ==
    << TextLine("Invocation: q1 a b c x"),
       TextLine("   where a, b, and c are decimal values and a is not 0.") >>

ZeroLines == << TextLine("a must not be zero!") >>

HeaderLines ==
    << TextLine("  x + h      approximation    f(x + h)     error"),
       TextLine("------------------------------------------------") >>

\* The data line with the error taken as approx - direct.
RowLineSwapped(xh, approx, direct) ==
    [kind |-> "row", xh |-> xh, approx |-> approx, direct |-> direct,
     error |-> DSub[approx, direct],
     text |-> Str[Fmt3f[xh, 7] \o Fmt3f[approx, 19] \o Fmt3f[direct, 12]
                      \o Fmt3f[DSub[approx, direct], 10]]]

\* The printf call of writeExtrapolation: the four values handed to it and
\* the line "%7.3f%19.3f%12.3f%10.3f" makes of them.
RowLine(xh, approx, direct) ==
    [kind |-> "row", xh |-> xh, approx |-> approx, direct |-> direct,
     error |-> DSub[direct, approx],
     text |-> Str[Fmt3f[xh, 7] \o Fmt3f[approx, 19] \o Fmt3f[direct, 12]
                      \o Fmt3f[DSub[direct, approx], 10]]]

\* A line of standard output, and a printf call of a data line
Line == [kind : STRING, text : STRING]

PrintfCall ==
    [kind : {"row"}, xh : Double, approx : Double, direct : Double,
     error : Double, text : STRING]

\* The line of output the printf call r writes
LineOf(r) == [kind |-> "row", text |-> r.text]

\* The body of writeExtrapolation for the printf call r; keep leaves the
\* flag as it is.
WriteRow[fc \in BOOLEAN, out \in Seq(Line), r \in PrintfCall, keep \in BOOLEAN] ==
    [firstCall |-> IF fc /\ ~keep THEN FALSE ELSE fc,
     stdout    |-> (IF fc THEN out \o HeaderLines ELSE out) \o << LineOf(r) >>,
     lastRow   |-> r]

\* writeExtrapolation without the assignment firstCall = false.
writeExtrapolationKeepFlag(fc, out, xh, approx, direct) ==
    WriteRow[fc, out, RowLine(xh, approx, direct), TRUE]

\* void writeExtrapolation(double xh, double approx, double direct), as the
\* new values of its static flag fc and of the output out, and the values
\* it handed to printf.
writeExtrapolation(fc, out, xh, approx, direct) ==
    WriteRow[fc, out, RowLine(xh, approx, direct), FALSE]

\* ---------------------------------------------------------------- inputs
\* The command lines of the modelled runs, as argv[1] .. argv[4]: whole
\* numbers, fractions, signs, white space, text after the number, a
\* hexadecimal constant, a NaN, a coefficient large enough for 2.0 * a to
\* overflow, a large base point, a subnormal coefficient, a 1 written with
\* 330 zeros after the point and an exponent that makes up for them, a
\* function value that overflows where the slope does not, and first
\* arguments that atof reads as zero.
TableRuns ==
    { << << "1" >>, << "0" >>, << "0" >>, << "0" >> >>,
      << << "1" >>, << "2" >>, << "3" >>, << "5" >> >>,
      << << "-", "1" >>, << "0" >>, << "1", "q" >>, << " ", "5" >> >>,
      << << ".", "5" >>, << "2" >>, << "q" >>, << "-", "1", ".", "5" >> >>,
      << << "\t", "-", "2" >>, << "1" >>, << "0" >>,
         << "0", "x", "1", "p", "-", "1" >> >>,
      << << "0", ".", "1" >>, << "0", ".", "2" >>, << "0", ".", "3" >>,
         << "0", ".", "7" >> >>,
      << << "1", ".", "7", "e", "3", "0", "8" >>, << "0" >>, << "0" >>,
         << "2" >> >>,
      << << "n", "a", "n" >>, << "0" >>, << "0" >>, << "0" >> >>,
      << << "1" >>, << "0" >>, << "0" >>, << "1", "e", "8" >> >>,
      << << "1", "e", "-", "3", "2", "0" >>, << "0" >>, << "0" >>, << "0" >> >>,
      << << "0", "." >> \o [j \in 1..330 |-> "0"]
             \o << "1", "e", "3", "3", "1" >>,
         << "0" >>, << "0" >>, << "0" >> >>,
      << << "1", "e", "2", "0", "0" >>, << "0" >>, << "0" >>,
         << "1", "e", "5", "5" >> >> }

ZeroRuns ==
    { << << "0" >>, << "1" >>, << "1" >>, << "1" >> >>,
      << << "-", "0" >>, << "2" >>, << "1" >>, << "-", "1", ".", "5" >> >>,
      << << "q" >>, << "0" >>, << "0" >>, << "0" >> >>,
      << << "0", ".", "0" >>, << "0" >>, << "0" >>, << "0" >> >>,
      << << "1", "e", "-", "4", "0", "0" >>, << "0" >>, << "0" >>, << "0" >> >>,
      << << "0", "e", "9", "9", "9", "9", "9", "9", "9", "9", "9", "9", "9" >>,
         << "0" >>, << "0" >>, << "0" >> >> }

\* The argument vectors of an invocation with the given argc: the first
\* argc - 1 arguments of a modelled run, or the run with "0" after it.
ArgVectors(n) ==
    { [k \in 1..(n - 1) |-> IF k <= 4 THEN v[k] ELSE << "0" >>] :
        v \in TableRuns \cup ZeroRuns }

\* ----------------------------------------------------------------- main
Init ==
    /\ pc = "ValidateArgs"
    /\ argc \in 1..MaxArgc
    /\ argv \in ArgVectors(argc)
    /\ a = Unset /\ b = Unset /\ c = Unset /\ x = Unset /\ h = Unset
    /\ i = -1
    /\ firstCall = TRUE
    /\ stdout = << >>
    /\ lastRow = NoRow
    /\ exitCode = -1
    /\ call = NoCall

\* The argument-count test written as argc < 5.
ArgcAtLeast(n) == n >= 5

\* if ( argc != 5 )
ArgcOk(n) == n = 5

\* The coefficient test written as a < 0.0.
IsNegative(v) == v.cls # "nan" /\ v.sign = 1 /\ ~(v.cls = "fin" /\ v.man = << >>)

\* if ( a == 0.0 )
IsZero(v) == DEq(v, DZero(0))

\* The loop condition written as i <= stepLimit.
LoopCondInclusive(k) == k <= stepLimit

\* for (...; i < stepLimit; ...)
LoopCond(k) == k < stepLimit

\* h = h + stepSize
NextStep(v) == DAdd[v, stepSize]

\* Wrong argument count: usage message, return 1.
UsageExit ==
    /\ pc = "ValidateArgs"
    /\ ~ArgcOk(argc)
    /\ stdout' = stdout \o UsageLines
    /\ exitCode' = 1
    /\ pc' = "Done"
    /\ UNCHANGED <<argc, argv, a, b, c, x, h, i, firstCall, lastRow, call>>

\* Right argument count: the four parameters are converted with atof.
ParseArgs ==
    /\ pc = "ValidateArgs"
    /\ ArgcOk(argc)
    /\ a' = atof(argv[1])
    /\ b' = atof(argv[2])
    /\ c' = atof(argv[3])
    /\ x' = atof(argv[4])
    /\ pc' = "ValidateCoefficient"
    /\ UNCHANGED <<argc, argv, h, i, firstCall, stdout, lastRow, exitCode, call>>

\* On a == 0.0, going back to the argument check instead of returning.
ZeroRetry ==
    /\ pc = "ValidateCoefficient"
    /\ IsZero(a)
    /\ pc' = "ValidateArgs"
    /\ UNCHANGED <<argc, argv, a, b, c, x, h, i, firstCall, stdout, lastRow,
                   exitCode, call>>

\* a == 0.0: error message, return 2.
ZeroExit ==
    /\ pc = "ValidateCoefficient"
    /\ IsZero(a)
    /\ stdout' = stdout \o ZeroLines
    /\ exitCode' = 2
    /\ pc' = "Done"
    /\ UNCHANGED <<argc, argv, a, b, c, x, h, i, firstCall, lastRow, call>>

\* a != 0.0: double h = 0.0; int i = 0.
StartLoop ==
    /\ pc = "ValidateCoefficient"
    /\ ~IsZero(a)
    /\ h' = DZero(0)
    /\ i' = 0
    /\ pc' = "Iterate"
    /\ UNCHANGED <<argc, argv, a, b, c, x, firstCall, stdout, lastRow, exitCode, call>>

\* One pass of the loop body, then i++.
IterateStep ==
    /\ pc = "Iterate"
    /\ LoopCond(i)
    /\ \E approximation \in {extrapolate(a, b, c, x, h)},
          funcval \in {func(a, b, c, DAdd[x, h])} :
         \E w \in {writeExtrapolation(firstCall, stdout, DAdd[x, h],
                                      approximation, funcval)} :
            /\ firstCall' = w.firstCall
            /\ stdout' = w.stdout
            /\ lastRow' = w.lastRow
    /\ h' = NextStep(h)
    /\ i' = i + 1
    /\ UNCHANGED <<pc, argc, argv, a, b, c, x, exitCode, call>>

\* Loop condition false: return 0.
ReturnSuccess ==
    /\ pc = "Iterate"
    /\ ~LoopCond(i)
    /\ exitCode' = 0
    /\ pc' = "Done"
    /\ UNCHANGED <<argc, argv, a, b, c, x, h, i, firstCall, stdout, lastRow, call>>

Next ==
    \/ UsageExit
    \/ ParseArgs
    \/ ZeroExit
    \/ StartLoop
    \/ IterateStep
    \/ ReturnSuccess

Spec == Init /\ [][Next]_vars

\* main() is the only thread and every statement of it runs to completion,
\* so a step that can be taken is taken.
LiveSpec == Spec /\ WF_vars(Next)

\* ------------------------------------------- helper functions on their own
\* The values handed to a helper function called on its own.  Coefficients:
\* the tenths up to FnMax/10 of either sign (most of them not exact in
\* binary), and a finite value whose double overflows.  Points and offsets:
\* the tenths up to 2*FnMax/10 of either sign, with both zeros.
FnCoefs ==
    { DecToDouble[s, BFromInt[n], -1] : s \in 0..1, n \in 0..FnMax }
        \cup { DecToDouble[0, BFromInt[1], 308] }

FnPoints == { DecToDouble[s, BFromInt[n], -1] : s \in 0..1, n \in 0..(2 * FnMax) }

InitFn ==
    /\ pc = "Harness"
    /\ argc = 1
    /\ argv = << >>
    /\ a = Unset /\ b = Unset /\ c = Unset /\ x = Unset /\ h = Unset
    /\ i = -1
    /\ firstCall = TRUE
    /\ stdout = << >>
    /\ lastRow = NoRow
    /\ exitCode = -1
    /\ call \in [op : {"args"}, a : FnCoefs, b : FnCoefs, c : FnCoefs,
                 x : FnPoints, h : FnPoints, ret : {Unset}]

Driver ==
    <<pc, argc, argv, a, b, c, x, h, i, firstCall, stdout, lastRow, exitCode>>

\* func(a, b, c, x)
CallFunc ==
    /\ call.op = "args"
    /\ call' = [call EXCEPT !.op = "func",
                            !.ret = func(call.a, call.b, call.c, call.x)]
    /\ UNCHANGED Driver

\* funcPrime(a, b, x)
CallFuncPrime ==
    /\ call.op = "args"
    /\ call' = [call EXCEPT !.op = "funcPrime",
                            !.ret = funcPrime(call.a, call.b, call.x)]
    /\ UNCHANGED Driver

\* extrapolate(a, b, c, x, h)
CallExtrapolate ==
    /\ call.op = "args"
    /\ call' = [call EXCEPT !.op = "extrapolate",
                            !.ret = extrapolate(call.a, call.b, call.c,
                                                call.x, call.h)]
    /\ UNCHANGED Driver

NextFn ==
    \/ CallFunc
    \/ CallFuncPrime
    \/ CallExtrapolate

SpecFn == InitFn /\ [][NextFn]_vars

\* ------------------------------------------------------------------ claims
\* Exact arithmetic, to compare the doubles with: a number is
\* (-1)^neg * man * 2^exp with man of any size, and sums and products are
\* not rounded.
XNum == [neg : BOOLEAN, man : BigNat, exp : Int]

XZero == [neg |-> FALSE, man |-> << >>, exp |-> 0]

\* The value of a finite double
Exact(d) ==
    IF d.man = << >> THEN XZero
    ELSE [neg |-> d.sign = 1, man |-> d.man, exp |-> d.exp]

XInt(n) ==
    IF n = 0 THEN XZero
    ELSE [neg |-> n < 0, man |-> BFromInt[IF n < 0 THEN -n ELSE n], exp |-> 0]

XPow2(k) == [neg |-> FALSE, man |-> << 1 >>, exp |-> k]

XNeg[p \in XNum] == IF p.man = << >> THEN p ELSE [p EXCEPT !.neg = ~p.neg]

XAbs[p \in XNum] == [p EXCEPT !.neg = FALSE]

XMul[p \in XNum, q \in XNum] ==
    IF p.man = << >> \/ q.man = << >> THEN XZero
    ELSE [neg |-> p.neg # q.neg, man |-> BMul[p.man, q.man], exp |-> p.exp + q.exp]

XDiff[pn \in BOOLEAN, pm \in BigNat, qn \in BOOLEAN, qm \in BigNat, e \in Int, cmp \in -1..1] ==
    IF cmp = 0 THEN XZero
    ELSE IF cmp > 0 THEN [neg |-> pn, man |-> BSub[pm, qm], exp |-> e]
    ELSE [neg |-> qn, man |-> BSub[qm, pm], exp |-> e]

XSum[pn \in BOOLEAN, pm \in BigNat, qn \in BOOLEAN, qm \in BigNat, e \in Int] ==
    IF pn = qn THEN [neg |-> pn, man |-> BAddC[pm, qm, 0], exp |-> e]
    ELSE XDiff[pn, pm, qn, qm, e, BCmp[pm, qm]]

XAdd[p \in XNum, q \in XNum] ==
    IF p.man = << >> THEN q
    ELSE IF q.man = << >> THEN p
    ELSE XSum[p.neg, BShl[p.man, p.exp - Min(p.exp, q.exp)],
              q.neg, BShl[q.man, q.exp - Min(p.exp, q.exp)], Min(p.exp, q.exp)]

XSub[p \in XNum, q \in XNum] == XAdd[p, XNeg[q]]

XSign[p \in XNum] == IF p.man = << >> THEN 0 ELSE IF p.neg THEN -1 ELSE 1

XLess[p \in XNum, q \in XNum] == XSign[XSub[p, q]] < 0

XLeq[p \in XNum, q \in XNum] == XSign[XSub[p, q]] <= 0

IsFinite(d) == d.cls = "fin"

\* The polynomials, written out term by term: a*p*p + b*p + c
Quadratic(qa, qb, qc, p) ==
    XAdd[XAdd[XMul[XMul[qa, p], p], XMul[qb, p]], qc]

\* 2*a*p + b
Slope(qa, qb, p) == XAdd[XMul[XMul[XInt(2), qa], p], qb]

\* A bound on every term met in evaluating the two polynomials at x and at
\* x + h: |a| * t * t + |b| * t + |c| with t = |x| + |h|.
Scale(qa, qb, qc, qx, qh) ==
    Quadratic(XAbs[qa], XAbs[qb], XAbs[qc], XAdd[XAbs[qx], XAbs[qh]])

\* The rounding allowed between a double result and the exact value: the
\* operations of one row are fewer than 32, each rounds by at most 2^-53 of
\* its result, and 2^-40 of the scale is far above their sum; a result that
\* underflows is rounded by at most 2^-1075 more.
Tol(qa, qb, qc, qx, qh) ==
    XAdd[XMul[Scale(qa, qb, qc, qx, qh), XPow2(-40)], XPow2(-1070)]

\* The double d is the value v to within the tolerance t.
Near(d, v, t) == XLeq[XAbs[XSub[Exact(d), v]], t]

\* C5: extrapolate(a, b, c, x, h) returns func(a, b, c, x) +
\* h * funcPrime(a, b, x + h), the slope taken at x + h and the base value
\* at x; when the result is finite it is, to within rounding, the value of
\* (a*x*x + b*x + c) + h * (2*a*(x + h) + b).
C5_SlopeAtOffset ==
    call.op = "extrapolate" =>
        /\ call.ret = DAdd[func(call.a, call.b, call.c, call.x),
                           DMul[call.h, funcPrime(call.a, call.b,
                                                  DAdd[call.x, call.h])]]
        /\ IsFinite(call.ret) =>
              Near(call.ret,
                   XAdd[Quadratic(Exact(call.a), Exact(call.b), Exact(call.c),
                                  Exact(call.x)),
                        XMul[Exact(call.h),
                             Slope(Exact(call.a), Exact(call.b),
                                   XAdd[Exact(call.x), Exact(call.h)])]],
                   Tol(Exact(call.a), Exact(call.b), Exact(call.c),
                       Exact(call.x), Exact(call.h)))

\* A call of extrapolate on values that are not exact in binary, where the
\* slope at x + h differs from the slope at x.
C5_Witness ==
    /\ call.op = "extrapolate"
    /\ call.a = DecToDouble[0, << 1 >>, -1] /\ call.b = DecToDouble[1, << 1 >>, -1]
    /\ call.c = DecToDouble[0, << 1 >>, -1]
    /\ call.x = DecToDouble[0, << 2 >>, -1] /\ call.h = DecToDouble[1, << 1 >>, -1]
    /\ IsFinite(call.ret)
    /\ call.ret # extrapolateSlopeAtBase(call.a, call.b, call.c, call.x, call.h)

\* C6: extrapolate(a, b, c, x, h) is the tangent at (x, f(x)) taken at
\* x + h: to within rounding f(x) + h * f'(x), with the slope the
\* derivative at x.
C6_TangentAtBase ==
    (call.op = "extrapolate" /\ IsFinite(call.ret)) =>
        Near(call.ret,
             XAdd[Quadratic(Exact(call.a), Exact(call.b), Exact(call.c),
                            Exact(call.x)),
                  XMul[Exact(call.h),
                       Slope(Exact(call.a), Exact(call.b), Exact(call.x))]],
             Tol(Exact(call.a), Exact(call.b), Exact(call.c),
                 Exact(call.x), Exact(call.h)))

IsRow(l) == l.kind = "row"

DataRows == SelectSeq(stdout, IsRow)

IsHeaderLine(l) == l.kind = "text" /\ l \in { HeaderLines[1], HeaderLines[2] }

\* No line of the table (header or data) has been written.
NoTable == \A k \in 1..Len(stdout) : ~IsRow(stdout[k]) /\ ~IsHeaderLine(stdout[k])

\* The value is a zero of either sign.
IsZeroValue(d) == d.cls = "fin" /\ d.man = << >>

\* The step is a pass of the loop body, and the values it hands to printf.
RowStep == pc = "Iterate" /\ i' = i + 1

NewRow == lastRow'

\* C1: with an argument count other than four (argc # 5) the run prints the
\* usage message, returns 1 and prints no table, whatever the arguments are:
\* the arguments are never converted and the coefficient is never tested.
C1_WrongArgCount ==
    argc # 5 =>
        /\ pc \in {"ValidateArgs", "Done"}
        /\ a = Unset /\ b = Unset /\ c = Unset /\ x = Unset
        /\ NoTable
        /\ firstCall
        /\ exitCode \in {-1, 1}
        /\ pc = "Done" => (exitCode = 1 /\ stdout = UsageLines)
        /\ pc = "ValidateArgs" => (exitCode = -1 /\ stdout = << >>)

\* A finished run with three arguments, the first of them zero.
C1_Witness ==
    /\ argc = 4 /\ argv[1] = << "0" >>
    /\ pc = "Done" /\ exitCode = 1 /\ stdout = UsageLines

\* C2: with four arguments and a parsed coefficient a equal to 0 (of either
\* sign, also by underflow or from text that is no number) the run prints
\* the error message, returns 2 and prints no table: the loop is never
\* entered, so extrapolate, func and writeExtrapolation are not called.
C2_ZeroCoefficient ==
    (argc = 5 /\ pc # "ValidateArgs" /\ IsZeroValue(a)) =>
        /\ pc \in {"ValidateCoefficient", "Done"}
        /\ NoTable
        /\ firstCall
        /\ h = Unset /\ i = -1
        /\ exitCode \in {-1, 2}
        /\ pc = "Done" => (exitCode = 2 /\ stdout = ZeroLines)
        /\ pc = "ValidateCoefficient" => (exitCode = -1 /\ stdout = << >>)

\* A finished run whose first argument is read as minus zero and whose b,
\* c and x are not zero.
C2_Witness ==
    /\ argc = 5 /\ argv[1] = << "-", "0" >>
    /\ a = DZero(1)
    /\ pc = "Done" /\ exitCode = 2 /\ stdout = ZeroLines
    /\ b = DFromInt(2) /\ c = DFromInt(1) /\ x = DecToDouble[1, BFromInt[15], -1]

\* The text of k / 1000 with three decimals, for k below 10000
Thousandths(k) ==
    << DigitChars[(k \div 1000) + 1], ".", DigitChars[((k \div 100) % 10) + 1],
       DigitChars[((k \div 10) % 10) + 1], DigitChars[(k % 10) + 1] >>

\* The run has four arguments and a coefficient that is not zero.
TableRun == argc = 5 /\ pc \notin {"ValidateArgs", "ValidateCoefficient"}
                /\ ~IsZeroValue(a)

\* The counts of C3: i passes of the loop have written i rows, and a run
\* with four arguments and a # 0 ends with 1000 rows and exit code 0.
C3_RowCount ==
    /\ pc = "Iterate" => (i \in 0..1000 /\ Len(DataRows) = i)
    /\ (pc = "Done" /\ TableRun) =>
          (exitCode = 0 /\ i = 1000 /\ Len(DataRows) = 1000)

\* C3 as stated: a run with four arguments and a # 0 writes exactly 1000
\* data rows, and the k-th pass of the loop (k = 0..999) has the offset
\* h = k * 0.001, the product as a double or the double nearest to k / 1000.
C3_ExactOffsets ==
    /\ C3_RowCount
    /\ pc = "Iterate" =>
          h \in { DMul[DFromInt(i), stepSize], DecToDouble[0, BFromInt[i], -3] }

\* The offset of pass i is i / 1000 to within 2^-49 and prints as i / 1000
\* with three decimals.
C3_OffsetState ==
    pc = "Iterate" =>
        /\ IsFinite(h)
        /\ XLeq[XAbs[XSub[XMul[XInt(1000), Exact(h)], XInt(i)]],
                XMul[XInt(1000), XPow2(-49)]]
        /\ Fmt3f[h, 5] = Thousandths(i)

\* A pass of the loop happens only for i in 0..999, writes one row computed
\* with the current offset h, and then adds stepSize to h in double
\* arithmetic, which makes h larger.
C3_RowStep ==
    RowStep =>
        /\ i \in 0..999
        /\ Len(DataRows') = i + 1
        /\ stdout'[Len(stdout')] = LineOf(NewRow)
        /\ NewRow.xh = DAdd[x, h]
        /\ NewRow.approx = extrapolate(a, b, c, x, h)
        /\ NewRow.direct = func(a, b, c, DAdd[x, h])
        /\ h' = DAdd[h, stepSize]
        /\ XLess[Exact(h), Exact(h')]

\* C3, amended: a run with four arguments and a # 0 writes exactly 1000
\* data rows; row k (k = 0..999) is computed with the offset h got by
\* adding the double stepSize k times to 0.0, which is k * 0.001 up to
\* rounding, prints as 0.000, 0.001, ..., 0.999 and grows strictly from row
\* to row; no row is written for h = 1.000.
C3_ThousandRows ==
    /\ [](C3_RowCount /\ C3_OffsetState)
    /\ [][C3_RowStep]_vars

\* A finished run of 1000 rows, the last at 0.999, whose final offset prints
\* as 1.000 and is not the double 1.0.
C3_Witness ==
    /\ pc = "Done" /\ exitCode = 0
    /\ argv[1] = << "1" >> /\ argv[4] = << "0" >>
    /\ Len(DataRows) = 1000
    /\ DataRows[1000].text = "  0.999              1.996       0.998    -0.998"
    /\ DataRows[1].text = "  0.000              0.000       0.000     0.000"
    /\ Fmt3f[h, 5] = Thousandths(1000)
    /\ h # DFromInt(1)

\* Number of lines of the output equal to the line l.
Count(l) == Cardinality({ k \in 1..Len(stdout) : stdout[k] = l })

C4_HeaderState ==
    /\ firstCall = (Len(DataRows) = 0)
    /\ firstCall => Count(HeaderLines[1]) = 0 /\ Count(HeaderLines[2]) = 0
    /\ ~firstCall =>
        /\ Count(HeaderLines[1]) = 1 /\ Count(HeaderLines[2]) = 1
        /\ stdout[1] = HeaderLines[1] /\ stdout[2] = HeaderLines[2]
        /\ \A k \in 3..Len(stdout) : IsRow(stdout[k])
        /\ Len(stdout) = Len(DataRows) + 2

\* C4: the two-line header is written exactly once, before the first data
\* row, however many rows follow: writeExtrapolation writes it only on the
\* call that finds firstCall true, clears firstCall on that call, and
\* firstCall never becomes true again.
C4_HeaderOnce ==
    /\ [](C4_HeaderState)
    /\ [][(~firstCall) => (~firstCall')]_vars
    /\ [][(firstCall /\ ~firstCall') =>
            (/\ Len(stdout') = Len(stdout) + 3
             /\ SubSeq(stdout', Len(stdout) + 1, Len(stdout) + 2) = HeaderLines
             /\ IsRow(stdout'[Len(stdout')]))]_vars

\* The header followed by several data rows, the flag cleared.
C4_Witness ==
    /\ ~firstCall
    /\ Len(DataRows) = 3
    /\ Len(stdout) = 5
    /\ stdout[1] = HeaderLines[1]

AllFinite == IsFinite(a) /\ IsFinite(b) /\ IsFinite(c) /\ IsFinite(x)

\* The estimate at offset 0 is the base value, and the first row carries it:
\* its approximation equals its true value f(x).
C7_FirstRowEstimate ==
    /\ DEq(extrapolate(a, b, c, x, DZero(0)), func(a, b, c, x))
    /\ (pc = "Iterate" /\ i = 1) =>
        /\ DEq(lastRow.xh, x)
        /\ DEq(lastRow.approx, func(a, b, c, x))
        /\ DEq(lastRow.approx, lastRow.direct)
        /\ DataRows = << LineOf(lastRow) >>

\* The first row has an error of 0.
C7_FirstRowError ==
    (pc = "Iterate" /\ i = 1) => DEq(lastRow.error, DZero(0))

\* C7 as stated: for all finite a, b, c, x, extrapolate(a, b, c, x, 0)
\* equals func(a, b, c, x), and the first data row of a run has its
\* approximation equal to the true value f(x) and an error of 0.
C7_ZeroOffsetAlways == AllFinite => (C7_FirstRowEstimate /\ C7_FirstRowError)

\* C7, amended: for finite a, b, c, x for which the slope funcPrime(a, b, x)
\* is finite, extrapolate(a, b, c, x, 0) equals func(a, b, c, x), also when
\* that value has overflowed to an infinity, and the first data row has its
\* approximation equal to the true value f(x); its error is 0 when f(x) is
\* finite as well.
C7_ZeroOffset ==
    /\ (AllFinite /\ IsFinite(funcPrime(a, b, x))) => C7_FirstRowEstimate
    /\ (AllFinite /\ IsFinite(funcPrime(a, b, x))
            /\ IsFinite(func(a, b, c, x))) => C7_FirstRowError

\* The first row of a run whose slope at x is not zero: f(5) = 38.
C7_Witness ==
    /\ pc = "Iterate" /\ i = 1
    /\ a = DFromInt(1) /\ b = DFromInt(2) /\ c = DFromInt(3) /\ x = DFromInt(5)
    /\ lastRow.approx = DFromInt(38)
    /\ lastRow.error = DZero(0)
    /\ funcPrime(a, b, x) = DFromInt(12)
    /\ DataRows = << [kind |-> "row", text |-> "  5.000             38.000      38.000     0.000"] >>

\* C8: a successful run writes a row for every k from 0 through stepLimit
\* inclusive, stepLimit + 1 rows in all.
C8_InclusiveRange ==
    (pc = "Done" /\ exitCode = 0) => Len(DataRows) = stepLimit + 1

Rank(p) ==
    CASE p = "ValidateArgs" -> 0
      [] p = "ValidateCoefficient" -> 1
      [] p = "Iterate" -> 2
      [] p = "Done" -> 3

C9_DoneState ==
    /\ (pc = "Done") = (exitCode \in {0, 1, 2})
    /\ pc = "Done" => ~ENABLED Next
    /\ exitCode = 0 =>
        /\ i = stepLimit
        /\ Len(DataRows) = stepLimit
        /\ Len(stdout) = stepLimit + 2
    /\ exitCode \in {1, 2} => NoTable

\* C9: every run terminates; main moves only forward through
\* ValidateArgs -> ValidateCoefficient -> Iterate -> Done; Done is reached
\* with exit code 0 after the full table, or with exit code 1 or 2 on
\* invalid input; exit code 0 is returned only after all stepLimit rows.
C9_Terminates ==
    /\ <>(pc = "Done")
    /\ [](C9_DoneState)
    /\ [][Rank(pc') >= Rank(pc)]_vars
    /\ [][pc = "ValidateArgs" => pc' \in {"ValidateCoefficient", "Done"}]_vars
    /\ [][pc = "ValidateCoefficient" => pc' \in {"Iterate", "Done"}]_vars

\* A run that returned 0 after its last pass of the loop.
C9_Witness ==
    /\ pc = "Done" /\ exitCode = 0
    /\ i = stepLimit
    /\ Len(stdout) = stepLimit + 2

\* -1, 0 or 1 as the double is negative, a zero or positive; 2 for a NaN
DSign(d) ==
    IF d.cls = "nan" THEN 2
    ELSE IF IsZeroValue(d) THEN 0
    ELSE IF d.sign = 1 THEN -1 ELSE 1

\* The C expression fabs(p) < fabs(q)
DLessMag(p, q) ==
    /\ p.cls = "fin" /\ q.cls # "nan"
    /\ q.cls = "inf" \/ XLess[XAbs[Exact(p)], XAbs[Exact(q)]]

\* The row written by the step has error = true value - approximation, the
\* true value being f(x + h) and the approximation extrapolate(x, h), and
\* where the row is finite the error is -a * h * h to within rounding,
\* whatever b, c and x are.
C10_RowError ==
    /\ NewRow.direct = func(a, b, c, DAdd[x, h])
    /\ NewRow.approx = extrapolate(a, b, c, x, h)
    /\ NewRow.error = DSub[NewRow.direct, NewRow.approx]
    /\ (AllFinite /\ IsFinite(NewRow.direct) /\ IsFinite(NewRow.approx)) =>
          Near(NewRow.error, XNeg[XMul[XMul[Exact(a), Exact(h)], Exact(h)]],
               Tol(Exact(a), Exact(b), Exact(c), Exact(x), Exact(h)))

\* The error of the row written by the step is zero only in the first row,
\* has the sign opposite to a in every other row, and is larger in
\* magnitude than the error of the row before.
C10_RowShape ==
    /\ (DSign(NewRow.error) = 0) = (i = 0)
    /\ i >= 1 =>
        /\ DSign(NewRow.error) = -DSign(a)
        /\ DLessMag(lastRow.error, NewRow.error)

\* -a * h * h in exact arithmetic, for the doubles qa and qh
ExactError(qa, qh) == XNeg[XMul[XMul[Exact(qa), Exact(qh)], Exact(qh)]]

\* In exact arithmetic, at the offset h of the row written by the step:
\* -a * h * h is zero only in the first row, where h = 0, has the sign
\* opposite to a in every other row, and is smaller in magnitude than at
\* the offset h' of the row after.
C10_ExactShape ==
    /\ (XSign[ExactError(a, h)] = 0) = (i = 0)
    /\ i >= 1 => XSign[ExactError(a, h)] = -XSign[Exact(a)]
    /\ XLess[XAbs[ExactError(a, h)], XAbs[ExactError(a, h')]]

\* Rounding is small against a * h * h in every row: a is in the normal
\* range with room to spare (2^-900 <= |a| <= 2^900), and the terms of the
\* polynomial at |x| + 1 are at most 2^19 times |a|.
Moderate ==
    /\ AllFinite
    /\ XLeq[XPow2(-900), XAbs[Exact(a)]]
    /\ XLeq[XAbs[Exact(a)], XPow2(900)]
    /\ XLeq[Scale(Exact(a), Exact(b), Exact(c), Exact(x), XInt(1)),
            XMul[XAbs[Exact(a)], XPow2(19)]]

\* C10: every data row written at offset h has error = true value -
\* approximation = func(a, b, c, x + h) - extrapolate(a, b, c, x, h), which
\* is -a * h * h up to the rounding of the doubles, whatever b, c and x
\* are; in exact arithmetic -a * h * h is zero only in the h = 0 row, has
\* the sign opposite to a in every other row and grows strictly in
\* magnitude from row to row, and where rounding is small against
\* a * h * h (Moderate) the doubles written show the same.
C10_ErrorIsMinusAHH ==
    [][RowStep => /\ C10_RowError
                  /\ AllFinite => C10_ExactShape
                  /\ Moderate => C10_RowShape]_vars

\* A row other than the first, with a negative coefficient a and so a
\* positive error, printed as 0.250 at h = 0.500.
C10_Witness ==
    /\ a = DFromInt(-1) /\ x = DFromInt(5)
    /\ Len(DataRows) = 501
    /\ DSign(lastRow.error) = 1
    /\ DataRows[501].text = "  5.500            -29.500     -29.250     0.250"
====
